---- MODULE Spec2Model ----
(***************************************************************************)
(* Model of the contract wrapping/evaluation engine of src/mod.ts:         *)
(* wrapMethod / wrapSetter (the synchronous path of a wrapped call),       *)
(* runAsyncMethod / runAsyncSetter (the await-based continuation),         *)
(* reportMethodFailure / reportSetterFailure, emitTrace, handleFailure,    *)
(* resolveSpec, the process-wide failure mode, and wrapClass with the      *)
(* constructor of its derived class Sub.                                   *)
(*                                                                         *)
(* The specifications share the actions:                                   *)
(*   Spec       one member (method or setter) of one receiver is decorated *)
(*              in Init, with any declaration;                             *)
(*   SpecClass  either a class is decorated (wrapClass, construction of    *)
(*              one instance, calls and reads of its members) or one       *)
(*              member carrying all three predicates is, with every trace  *)
(*              setting including a sink that throws;                      *)
(*   SpecMode   scoped sections prev = setFailureMode(m); ...;             *)
(*              setFailureMode(prev), sequential and nested;               *)
(*   SpecRace   such sections ending in any order;                         *)
(*   SpecLive   Spec with tracing off, under weak fairness of the steps    *)
(*              of the call in progress;                                   *)
(*   SpecBuild  one member called in two builds, its predicates returning  *)
(*              fixed values directly and then as promises;                *)
(*   SpecOverlap two invocations of an async method that overlap on one    *)
(*              receiver whose invariant is balance >= 0;                  *)
(*   SpecCtor   a decorated class whose base constructor calls a member    *)
(*              of the instance;                                           *)
(*   SpecResolve the resolver applied to every shape of argument.          *)
(*                                                                         *)
(* The receiver                                                            *)
(* has one numeric field (balance); the original method takes its argument *)
(* off the field, the original setter stores its argument in it.  The user *)
(* predicates and the value the original returns are arbitrary user code:  *)
(* what they return (true, false or undefined, directly or through a       *)
(* promise; undefined, null or a number for the operation) is chosen       *)
(* when they are called, unless `build` fixes them (SpecBuild,             *)
(* SpecOverlap).                                                           *)
(*                                                                         *)
(* JavaScript runs a job to completion: while a call is between two        *)
(* awaits no other action is enabled.  Every `await` is a suspension       *)
(* point, also when the awaited value is not a promise.                    *)
(***************************************************************************)
EXTENDS Integers, Sequences, FiniteSets, TLC

VARIABLES
  globalFailureMode,  \* mod.ts:6
  decl,               \* the raw declaration given to always(...)
  spec,               \* resolveSpec(decl), built once at decoration time;
                      \* for a decorated class, from wrapClass on, the
                      \* methodSpec / setterSpec its members are wrapped with
  form,               \* "method" | "setter": context.kind of the decorated member
  balance,            \* the receiver's field
  started,            \* number of wrapped calls started so far
  call,               \* the wrapped call in progress (or the last one)
  klass,              \* the decorated class: Sub.prototype, the construction
                      \* of the instance, the last accessor read
  sections,           \* open save/restore sections around setFailureMode
  build,              \* what the predicates and the original of the
                      \* decorated member compute
  other               \* a second invocation on the same receiver, suspended
                      \* while `call` runs

vars == <<globalFailureMode, decl, spec, form, balance, started, call,
          klass, sections, build, other>>

----------------------------------------------------------------------------
(* Bounds *)

MaxCalls == 1     \* wrapped calls per behaviour, one after the other
MaxArg == 1       \* magnitude of the argument of a call
MaxSections == 4  \* save/restore sections entered per behaviour

Args == 1..MaxArg

----------------------------------------------------------------------------
(* Values *)

FailureModes == {"log", "throw"}

\* A JavaScript value as far as the engine looks at it: `async` says it is
\* a promise (then v, n is what it settles to); v is "T" (true), "F"
\* (false), "undef" (undefined), "null" or "num" (the number n).
Val(a, v, n) == [async |-> a, v |-> v, n |-> n]
Undefined == Val(FALSE, "undef", 0)
True == Val(FALSE, "T", 0)

\* what a user predicate can return
PredValues == {Val(a, v, 0) : a \in BOOLEAN, v \in {"T", "F", "undef"}}

\* what the original operation can return once the field holds n
ResultValues(n) ==
  {Val(a, v, 0) : a \in BOOLEAN, v \in {"undef", "null"}}
    \cup {Val(a, "num", n) : a \in BOOLEAN}

\* the value `await x` produces
Awaited(x) == Val(FALSE, x.v, x.n)

\* variant: tests the value for truthiness instead of for a `then` method
isPromiseLikeTruthy(value) == value.async \/ value.v \in {"T", "num"}

\* variant: recognises no value as a promise
isPromiseLikeNever(value) == FALSE

isPromiseLike(value) == value.async

\* `x ?? ...` takes the right-hand side exactly when x is undefined or null
IsNullish(x) == ~x.async /\ x.v \in {"undef", "null"}

\* `x === false` on the synchronous path
SyncFails(x) == ~x.async /\ x.v = "F"

\* variant: `ok` instead of `!ok`
AsyncFailsInverted(ok) == ok.v = "T"

\* `!ok` on an awaited value
AsyncFails(ok) == ok.v \in {"F", "undef", "null"}

----------------------------------------------------------------------------
(* Spec Resolver *)

\* The argument of always(): kind is "object", "function" (a callable) or
\* "undefined" (anything else).  A field holding a predicate is "absent"
\* (undefined), "null", "fn" (a function) or "other" (any other value);
\* trace is "undefined", "false" or "sink" (a function); failureMode is
\* "undefined", "log", "throw" or "bogus" (any other value).
\* Declarations that use the primary names only:
RawSpecs ==
  [kind: {"object"},
   before: {"absent", "fn"}, requires: {"absent"},
   after: {"absent", "fn"}, ensures: {"absent"},
   constant: {"absent", "fn"}, invariant: {"absent"},
   trace: {"undefined", "false", "sink"},
   failureMode: {"undefined", "log", "throw", "bogus"}]

\* The resolved spec says for each predicate whether there is one, and in
\* `src` which field of the input supplied it ("none": undefined).
resolveSpec(input) ==
  LET isObject == input.kind = "object"
      before == IF isObject /\ input.before = "fn" THEN "before"
                ELSE IF isObject /\ input.requires = "fn" THEN "requires"
                ELSE "none"
      after == IF isObject /\ input.after = "fn" THEN "after"
               ELSE IF isObject /\ input.ensures = "fn" THEN "ensures"
               ELSE "none"
      \* spec.constant ?? spec.invariant
      constantFromObject ==
        IF ~isObject THEN [v |-> "absent", src |-> "none"]
        ELSE IF input.constant \in {"absent", "null"}
        THEN [v |-> input.invariant, src |-> "invariant"]
        ELSE [v |-> input.constant, src |-> "constant"]
      constant == IF input.kind = "function" THEN "input"
                  ELSE IF constantFromObject.v = "fn"
                  THEN constantFromObject.src
                  ELSE "none"
  IN  [before |-> before # "none",
       after |-> after # "none",
       constant |-> constant # "none",
       trace |-> IF isObject THEN input.trace ELSE "undefined",
       failureMode |-> IF isObject /\ input.failureMode \in {"throw", "log"}
                       THEN input.failureMode ELSE "undefined",
       src |-> [before |-> before, after |-> after, constant |-> constant]]

----------------------------------------------------------------------------
(* Failure Channel and Tracer *)

getFailureMode == globalFailureMode

\* variant: the process-wide mode wins over the override
EffectiveModeGlobalFirst(s, global) == global

\* spec.failureMode ?? getFailureMode()
EffectiveMode(s, global) ==
  IF s.failureMode # "undefined" THEN s.failureMode ELSE global

\* `class Account` of the tests: the declared name of the receiver's class
DeclaredName == "Account"

\* `abstract class Sub extends Base`: the name of the class wrapClass returns
SubName == "Sub"

\* self.constructor.name: an instance made by a transformed class has
\* Sub as its constructor, any other receiver the class it was declared in
getClassName ==
  IF klass.level = "class" THEN SubName ELSE DeclaredName

NoMsg == [head |-> "-", cls |-> "-", form |-> "-", arg |-> 0,
          hasResult |-> FALSE, result |-> Undefined]

\* One line of output: ch is "sink" (user trace sink), "console.trace"
\* or "console.error".
Line(ch, kind, msg) == [ch |-> ch, kind |-> kind, msg |-> msg]

\* the event handed to the sink: its kind and class
Event(ch, kind) == Line(ch, kind, [NoMsg EXCEPT !.cls = getClassName])

\* effective(info) / console.trace("[always]", info): the event reaches
\* the sink; a sink "badsink" then throws
Deliver(effective, kind, io) ==
  IF effective \in {"sink", "badsink"}
  THEN [io |-> Append(io, Event("sink", kind)),
        thrown |-> effective = "badsink"]
  ELSE [io |-> Append(io, Event("console.trace", kind)), thrown |-> FALSE]

\* variant: no try/catch around the sink
emitTraceNoCatch(trace, kind, io) ==
  LET effective == IF trace = "undefined" THEN "true" ELSE trace
  IN  IF effective = "false" THEN [io |-> io, thrown |-> FALSE]
      ELSE Deliver(effective, kind, io)

\* thrown: an exception leaves emitTrace
emitTrace(trace, kind, io) ==
  LET effective == IF trace = "undefined" THEN "true" ELSE trace
  IN  IF effective = "false" THEN [io |-> io, thrown |-> FALSE]
      ELSE [Deliver(effective, kind, io) EXCEPT !.thrown = FALSE]

\* an exception of the sink, were it to leave emitTrace
SinkError == [NoMsg EXCEPT !.head = "sink error"]


\* variant: writes the diagnostic in both modes
handleFailureLogOnly(mode, message, io) ==
  [thrown |-> FALSE, msg |-> message,
   io |-> Append(io, Line("console.error", "-", message))]

\* handleFailure: throws in throw mode, writes one console.error line
\* otherwise
handleFailure(mode, message, io) ==
  IF mode = "throw"
  THEN [thrown |-> TRUE, msg |-> message, io |-> io]
  ELSE [thrown |-> FALSE, msg |-> message,
        io |-> Append(io, Line("console.error", "-", message))]

\* variant: the "constant-after" branch is missing
MethodHeadFallthrough(kind) ==
  IF kind = "after" THEN "After failed"
  ELSE IF kind = "constant-before" THEN "Constant failed before"
  ELSE "Before failed"

MethodHead(kind) ==
  IF kind = "after" THEN "After failed"
  ELSE IF kind = "constant-after" THEN "Constant failed after"
  ELSE IF kind = "constant-before" THEN "Constant failed before"
  ELSE "Before failed"

SetterHead(kind) ==
  IF kind = "setter-after" THEN "After failed"
  ELSE IF kind = "constant-after" THEN "Constant failed after"
  ELSE IF kind = "constant-before" THEN "Constant failed before"
  ELSE "Before failed"

\* variant: the failure is handled before the event is emitted
reportMethodFailureTraceLast(kind, trace, failureMode, arg, result, io) ==
  LET withResult == kind \in {"after", "constant-after"}
      message == [head |-> MethodHead(kind), cls |-> getClassName,
                  form |-> "method", arg |-> arg,
                  hasResult |-> withResult,
                  result |-> IF withResult THEN result ELSE Undefined]
      h == handleFailure(failureMode, message, io)
  IN  IF h.thrown THEN h
      ELSE [h EXCEPT !.io = emitTrace(trace, kind, h.io).io]

reportMethodFailure(kind, trace, failureMode, arg, result, io) ==
  LET t == emitTrace(trace, kind, io)
      withResult == kind \in {"after", "constant-after"}
      message == [head |-> MethodHead(kind), cls |-> getClassName,
                  form |-> "method", arg |-> arg,
                  hasResult |-> withResult,
                  result |-> IF withResult THEN result ELSE Undefined]
  IN  IF t.thrown THEN [thrown |-> TRUE, msg |-> SinkError, io |-> t.io]
      ELSE handleFailure(failureMode, message, t.io)

\* variant: the setter failure is worded like a method call
reportSetterFailureAsCall(kind, trace, failureMode, value, result, io) ==
  LET t == emitTrace(trace, kind, io)
      withResult == kind \in {"setter-after", "constant-after"}
      message == [head |-> SetterHead(kind), cls |-> getClassName,
                  form |-> "method", arg |-> value,
                  hasResult |-> withResult,
                  result |-> IF withResult THEN result ELSE Undefined]
  IN  IF t.thrown THEN [thrown |-> TRUE, msg |-> SinkError, io |-> t.io]
      ELSE handleFailure(failureMode, message, t.io)

reportSetterFailure(kind, trace, failureMode, value, result, io) ==
  LET t == emitTrace(trace, kind, io)
      withResult == kind \in {"setter-after", "constant-after"}
      message == [head |-> SetterHead(kind), cls |-> getClassName,
                  form |-> "setter", arg |-> value,
                  hasResult |-> withResult,
                  result |-> IF withResult THEN result ELSE Undefined]
  IN  IF t.thrown THEN [thrown |-> TRUE, msg |-> SinkError, io |-> t.io]
      ELSE handleFailure(failureMode, message, t.io)

\* the failure kind each stage reports, per form
FailureKind(f, stage) ==
  IF stage = "cb" THEN "constant-before"
  ELSE IF stage = "ca" THEN "constant-after"
  ELSE IF stage = "pre" THEN (IF f = "method" THEN "before" ELSE "setter-before")
  ELSE (IF f = "method" THEN "after" ELSE "setter-after")

----------------------------------------------------------------------------
(* Evaluation state of one wrapped call *)

Forms == {"method", "setter"}
StageSet == {"cb", "pre", "op", "post", "ca"}

\* variant: the postcondition is checked before the original is invoked
NextStageCheckFirst(s) ==
  CASE s = "cb" -> "pre"
    [] s = "pre" -> "post"
    [] s = "post" -> "op"
    [] s = "op" -> "ca"
    [] OTHER -> "ret"

\* The order of the five steps in the body of wrapped() and of
\* runAsyncMethod / runAsyncSetter; "ret" is the final `return result`.
NextStage(s) ==
  CASE s = "cb" -> "pre"
    [] s = "pre" -> "op"
    [] s = "op" -> "post"
    [] s = "post" -> "ca"
    [] OTHER -> "ret"

\* AsyncMethodState / AsyncSetterState; an unset field is undefined
NoInitial == [s \in StageSet |-> Undefined]

NoOut == [status |-> "none", pending |-> FALSE, value |-> Undefined,
          msg |-> NoMsg]

\* path: "idle" (not called yet), "sync" (body of wrapped()), "async"
\* (runAsyncMethod / runAsyncSetter), "done".  stage: the step the call is
\* at.  wait: suspended at the await of that step.
\* History kept for the properties: log (the steps in the order they were
\* evaluated), refuted (steps whose predicate returned false, directly or
\* through a promise), asyncSeen (some step returned a promise), pend
\* (steps whose promise has not been awaited yet), early (a step was
\* evaluated while an earlier promise was unresolved), io (trace events and
\* diagnostics in order), failed (the failure kind reported), out (what
\* the caller gets), wrote (the field as the last invocation of the
\* original left it), entry (the field when the call began),
\* atCheck (the process-wide mode when the failure was reported).
IdleCall ==
  [path |-> "idle", stage |-> "cb", wait |-> FALSE, arg |-> 0,
   failureMode |-> "log",
   initial |-> NoInitial, awaiting |-> Undefined, result |-> Undefined,
   log |-> <<>>, refuted |-> {}, asyncSeen |-> FALSE, pend |-> {},
   early |-> FALSE, io |-> <<>>, failed |-> "-", out |-> NoOut,
   wrote |-> 0, entry |-> 0, atCheck |-> "-"]

Running == call.path \in {"sync", "async"} /\ ~call.wait

Evaluated(r, stage, val) ==
  [r EXCEPT !.log = Append(@, stage),
            !.refuted = IF val.v = "F" THEN @ \cup {stage} ELSE @,
            !.asyncSeen = @ \/ val.async,
            !.early = @ \/ (r.pend # {}),
            !.pend = IF val.async THEN @ \cup {stage} ELSE @]

\* `return runAsyncMethod(..., initial)`: the caller gets a promise
EnterAsync(r, init) ==
  [r EXCEPT !.path = "async", !.stage = "cb", !.wait = FALSE,
            !.initial = init, !.out.pending = TRUE]

\* variant: the call returns nothing
FinishUndefined(r, value) ==
  [r EXCEPT !.path = "done", !.wait = FALSE,
            !.out.status = "returned", !.out.value = Undefined]

Finish(r, value) ==
  [r EXCEPT !.path = "done", !.wait = FALSE,
            !.out.status = "returned", !.out.value = value]

\* variant: a failing call always returns undefined
ReturnOnFailureUndefined(stage, result) == Undefined

\* what the call returns after a failure that did not throw
ReturnOnFailure(stage, result) ==
  IF stage \in {"cb", "pre"} THEN Undefined ELSE result

\* variant: the failure mode is looked up when the failure is reported
ReportedUnderModeAtCheck(trace, r, stage, result) ==
  LET kind == FailureKind(form, stage)
      mode == EffectiveMode(spec, globalFailureMode)
      rep == IF form = "method"
             THEN reportMethodFailure(kind, trace, mode, r.arg, result, r.io)
             ELSE reportSetterFailure(kind, trace, mode, r.arg, result, r.io)
  IN  IF rep.thrown
      THEN [r EXCEPT !.path = "done", !.wait = FALSE, !.io = rep.io,
                     !.failed = kind, !.out.status = "raised",
                     !.out.msg = rep.msg, !.atCheck = globalFailureMode]
      ELSE [Finish(r, ReturnOnFailure(stage, result))
              EXCEPT !.io = rep.io, !.failed = kind,
                     !.atCheck = globalFailureMode]

\* variant: after a report that did not throw the call goes on with the
\* next step instead of returning
ReportedUnderFallsThrough(trace, r, stage, result) ==
  LET kind == FailureKind(form, stage)
      rep == IF form = "method"
             THEN reportMethodFailure(kind, trace, r.failureMode,
                                      r.arg, result, r.io)
             ELSE reportSetterFailure(kind, trace, r.failureMode,
                                      r.arg, result, r.io)
  IN  IF rep.thrown
      THEN [r EXCEPT !.path = "done", !.wait = FALSE, !.io = rep.io,
                     !.failed = kind, !.out.status = "raised",
                     !.out.msg = rep.msg, !.atCheck = globalFailureMode]
      ELSE LET s == NextStage(r.stage)
               on == IF s = "ret" THEN Finish(r, r.result)
                     ELSE [r EXCEPT !.stage = s, !.wait = FALSE]
           IN  [on EXCEPT !.io = rep.io, !.failed = kind,
                          !.atCheck = globalFailureMode]

\* the call r after the report of a failure of `stage`, for a spec whose
\* trace setting is `trace`
ReportedUnder(trace, r, stage, result) ==
  LET kind == FailureKind(form, stage)
      rep == IF form = "method"
             THEN reportMethodFailure(kind, trace, r.failureMode,
                                      r.arg, result, r.io)
             ELSE reportSetterFailure(kind, trace, r.failureMode,
                                      r.arg, result, r.io)
  IN  IF rep.thrown
      THEN [r EXCEPT !.path = "done", !.wait = FALSE, !.io = rep.io,
                     !.failed = kind, !.out.status = "raised",
                     !.out.msg = rep.msg, !.atCheck = globalFailureMode]
      ELSE [Finish(r, ReturnOnFailure(stage, result))
              EXCEPT !.io = rep.io, !.failed = kind,
                     !.atCheck = globalFailureMode]

Reported(r, stage, result) == ReportedUnder(spec.trace, r, stage, result)

\* the `result` argument of the report: omitted before the invocation
ReportedResult(stage, r) ==
  IF stage \in {"cb", "pre"} THEN Undefined ELSE r.result

\* variant: the final `return result` is never reached
AdvanceNoReturn(r) ==
  [r EXCEPT !.stage = NextStage(r.stage), !.wait = FALSE]

Advance(r) ==
  LET s == NextStage(r.stage)
  IN  IF s = "ret" THEN Finish(r, r.result)
      ELSE [r EXCEPT !.stage = s, !.wait = FALSE]

\* the body of the original: the method takes its argument off the field
\* (withdraw), the setter stores it
Original(f, field, arg) == IF f = "method" THEN field - arg ELSE arg

\* The AsyncMethodState handed to runAsyncMethod at each switch
InitialAtConstantBefore(constantBefore) ==
  [NoInitial EXCEPT !["cb"] = constantBefore]

InitialAtBefore(beforeResult) ==
  [NoInitial EXCEPT !["cb"] = IF spec.constant THEN True ELSE Undefined,
                    !["pre"] = beforeResult]

\* variant: the precondition's outcome is not handed over
InitialAtResultNoBefore(result) ==
  [NoInitial EXCEPT !["cb"] = IF spec.constant THEN True ELSE Undefined,
                    !["op"] = result]

InitialAtResult(result) ==
  [NoInitial EXCEPT !["cb"] = IF spec.constant THEN True ELSE Undefined,
                    !["pre"] = IF spec.before THEN True ELSE Undefined,
                    !["op"] = result]

InitialAtAfter(result, afterResult) ==
  [NoInitial EXCEPT !["cb"] = IF spec.constant THEN True ELSE Undefined,
                    !["pre"] = IF spec.before THEN True ELSE Undefined,
                    !["op"] = result,
                    !["post"] = afterResult]

InitialAtConstantAfter(result, constantAfter) ==
  [NoInitial EXCEPT !["cb"] = True,
                    !["pre"] = IF spec.before THEN True ELSE Undefined,
                    !["op"] = result,
                    !["post"] = IF spec.after THEN True ELSE Undefined,
                    !["ca"] = constantAfter]

----------------------------------------------------------------------------
(* Initial state: the module is loaded and one member is decorated *)

\* what Sub.prototype holds for a key: a wrapped method, a pass-through
\* getter and/or a wrapped setter, or nothing
NotDefined == [value |-> "-", get |-> "-", set |-> "-"]

\* the members of the base class: own string-named and symbol-named
\* properties of Base.prototype, and one method inherited from an ancestor
OwnNames == {"constructor", "withdraw", "flag"}
OwnSymbols == {"sym"}
Inherited == {"describe"}
Keys == OwnNames \cup OwnSymbols \cup Inherited

NoCtor == [log |-> <<>>, got |-> Undefined, io |-> <<>>,
           status |-> "none", msg |-> NoMsg]

NoRead == [done |-> FALSE, value |-> FALSE]

\* level: what always(...) decorates, a "member" or a "class".  phase of
\* a decorated class: "declared", "rejected" (wrapClass threw),
\* "transformed", "calling" (the base constructor is running and has called
\* a member of the instance), "super" (the base constructor has run), "built" (the
\* instance was returned), "failed" (construction threw).  proto:
\* Sub.prototype.  ctor: the run of Sub's constructor (log: its steps;
\* got: what the invariant returned; io, status, msg as for a call).  error: what wrapClass threw.
\* member: the key of the member called last.  read: the last accessor
\* read since that call.
NoClass ==
  [level |-> "member", phase |-> "member",
   proto |-> [k \in Keys |-> NotDefined], ctor |-> NoCtor,
   error |-> NoMsg, member |-> "-", read |-> NoRead]

\* stack: the open sections, each with the value setFailureMode returned
\* (prev), the mode it found (began) and the mode it set; entered: sections
\* begun so far; base: the mode found by the section that began when none
\* was open.
NoSections == [stack |-> <<>>, entered |-> 0, base |-> "log"]

\* What a finished call shows: the failure kind, the predicates evaluated,
\* the invocations of the original, whether it raised, its messages, and
\* the failure mode and the field it started with.
Outcome(r) ==
  [failed |-> r.failed,
   checked |-> {r.log[i] : i \in DOMAIN r.log} \ {"op"},
   invoked |-> Cardinality({i \in DOMAIN r.log : r.log[i] = "op"}),
   raised |-> r.out.status = "raised",
   mode |-> r.failureMode,
   messages |->
     {r.io[i].msg : i \in {j \in DOMAIN r.io :
                             r.io[j].ch = "console.error"}}
       \cup (IF r.out.status = "raised" THEN {r.out.msg} ELSE {}),
   entry |-> r.entry]

\* kind "any": each predicate and the original may return any value.
\* kind "direct" / "promised": the predicate of each step returns
\* values[step], as it is or as a promise of it, and the original returns
\* values["op"]; first: the outcome of the call of the direct build.
\* kind "account": the invariant is `self.balance >= 0` and the original is
\* an async function without a return value.
NoBuild ==
  [kind |-> "any", values |-> [s \in StageSet |-> Undefined],
   first |-> Outcome(IdleCall)]

\* variant: the invariant is evaluated on the field as this invocation's
\* own operation left it
ReturnedFromSnapshot(stage) ==
  CASE build.kind = "any" -> PredValues
    [] build.kind = "account" ->
         {Val(FALSE, IF call.wrote >= 0 THEN "T" ELSE "F", 0)}
    [] OTHER -> {Val(build.kind = "promised", build.values[stage].v, 0)}

\* constant(this), before(...args), after(result, ...args)
Returned(stage) ==
  CASE build.kind = "any" -> PredValues
    [] build.kind = "account" ->
         {Val(FALSE, IF balance >= 0 THEN "T" ELSE "F", 0)}
    [] OTHER -> {Val(build.kind = "promised", build.values[stage].v, 0)}

\* original.apply(this, args), once the field holds n
Results(n) ==
  CASE build.kind = "any" -> ResultValues(n)
    [] build.kind = "account" -> {Val(TRUE, "undef", 0)}
    [] OTHER -> {r \in ResultValues(n) :
                   /\ r.async = build.values["op"].async
                   /\ r.v = build.values["op"].v}

Init ==
  /\ globalFailureMode = "log"
  /\ decl \in RawSpecs
  /\ spec = resolveSpec(decl)
  /\ form \in Forms
  /\ balance = 0
  /\ started = 0
  /\ call = IdleCall
  /\ klass = NoClass
  /\ sections = NoSections
  /\ build = NoBuild
  /\ other = IdleCall

----------------------------------------------------------------------------
(* Process-wide configuration setter *)

\* variant: returns the default mode
setFailureModeCallReturnsDefault(current, mode) ==
  [global |-> mode, returned |-> "log"]

\* variant: returns the mode it has just set
setFailureModeCallReturnsNew(current, mode) ==
  [global |-> mode, returned |-> mode]

\* const previous = globalFailureMode; globalFailureMode = mode;
\* return previous
setFailureModeCall(current, mode) ==
  [global |-> mode, returned |-> current]

\* Sub's constructor is between the start of super(...) and its return
ConstructorRunning == klass.phase \in {"calling", "super"}

setFailureMode(mode) ==
  /\ ~Running /\ ~ConstructorRunning
  /\ globalFailureMode' = setFailureModeCall(globalFailureMode, mode).global
  /\ UNCHANGED <<decl, spec, form, balance, started, call, klass, sections,
                 build, other>>

----------------------------------------------------------------------------
(* wrapMethod / wrapSetter: the synchronous body of wrapped() *)

Frame ==
  UNCHANGED <<globalFailureMode, decl, spec, form, started, klass, sections,
              build, other>>

\* entry: const failureMode = spec.failureMode ?? getFailureMode()
Entered(arg) ==
  [IdleCall EXCEPT
     !.path = "sync", !.arg = arg,
     !.failureMode = EffectiveMode(spec, getFailureMode),
     !.wrote = balance, !.entry = balance]

Call(arg) ==
  /\ klass.level = "member"
  /\ call.path \in {"idle", "done"}
  /\ started < MaxCalls
  /\ started' = started + 1
  /\ call' = Entered(arg)
  /\ klass' = [klass EXCEPT !.read = NoRead]
  /\ UNCHANGED <<globalFailureMode, decl, spec, form, balance, sections,
                 build, other>>

\* the spec has a predicate for the step: `constant ?`, `before ?`, `after ?`
Present(stage) ==
  spec[IF stage = "pre" THEN "before"
       ELSE IF stage = "post" THEN "after" ELSE "constant"]

\* the state handed to the continuation when the step `stage` returned
\* the promise val
InitialAt(stage, result, val) ==
  CASE stage = "cb" -> InitialAtConstantBefore(val)
    [] stage = "pre" -> InitialAtBefore(val)
    [] stage = "post" -> InitialAtAfter(result, val)
    [] OTHER -> InitialAtConstantAfter(result, val)

SyncPredicate(stage) ==
  /\ call.path = "sync" /\ call.stage = stage
  /\ UNCHANGED balance /\ Frame
  /\ \/ /\ ~Present(stage)
        /\ call' = Advance(call)
     \/ /\ Present(stage)
        /\ \E val \in Returned(stage):
             LET r == Evaluated(call, stage, val)
             IN  call' = IF isPromiseLike(val)
                         THEN EnterAsync(r, InitialAt(stage, call.result, val))
                         ELSE IF SyncFails(val)
                         THEN Reported(r, stage, ReportedResult(stage, r))
                         ELSE Advance(r)

SyncConstantBefore == SyncPredicate("cb")

SyncBefore == SyncPredicate("pre")

SyncInvoke ==
  /\ call.path = "sync" /\ call.stage = "op"
  /\ Frame
  /\ balance' = Original(form, balance, call.arg)
  /\ \E result \in Results(balance'):
       LET r == [Evaluated(call, "op", result) EXCEPT !.wrote = balance']
       IN  call' = IF isPromiseLike(result)
                   THEN EnterAsync(r, InitialAtResult(result))
                   ELSE Advance([r EXCEPT !.result = result])

SyncAfter == SyncPredicate("post")

SyncConstantAfter == SyncPredicate("ca")

----------------------------------------------------------------------------
(* runAsyncMethod / runAsyncSetter: the await-based continuation *)

\* const ok = await (initial.x ?? predicate(...));  up to the suspension
AsyncPredicate(stage) ==
  /\ call.path = "async" /\ call.stage = stage /\ ~call.wait
  /\ UNCHANGED balance /\ Frame
  /\ IF ~Present(stage) THEN call' = Advance(call)
     ELSE IF IsNullish(call.initial[stage])
     THEN \E val \in Returned(stage):
            call' = [Evaluated(call, stage, val)
                       EXCEPT !.awaiting = val, !.wait = TRUE]
     ELSE call' = [call EXCEPT !.awaiting = call.initial[stage],
                               !.wait = TRUE]

\* the awaited value has settled: if (!ok) { report; return } 
ResumePredicate(stage) ==
  /\ call.path = "async" /\ call.stage = stage /\ call.wait
  /\ UNCHANGED balance /\ Frame
  /\ LET ok == Awaited(call.awaiting)
         r == [call EXCEPT !.pend = @ \ {stage}, !.wait = FALSE]
     IN  call' = IF AsyncFails(ok)
                 THEN Reported(r, stage, ReportedResult(stage, r))
                 ELSE Advance(r)

AsyncConstantBefore == AsyncPredicate("cb")
ResumeConstantBefore == ResumePredicate("cb")
AsyncBefore == AsyncPredicate("pre")
ResumeBefore == ResumePredicate("pre")

\* const rawResult = initial.result ?? original.apply(thisArg, args)
AsyncInvoke ==
  /\ call.path = "async" /\ call.stage = "op" /\ ~call.wait
  /\ Frame
  /\ IF IsNullish(call.initial["op"])
     THEN /\ balance' = Original(form, balance, call.arg)
          /\ \E result \in Results(balance'):
               call' = [Evaluated(call, "op", result)
                          EXCEPT !.wrote = balance', !.awaiting = result,
                                 !.wait = TRUE]
     ELSE /\ UNCHANGED balance
          /\ call' = [call EXCEPT !.awaiting = call.initial["op"],
                                  !.wait = TRUE]

\* const resolvedResult = await rawResult
ResumeInvoke ==
  /\ call.path = "async" /\ call.stage = "op" /\ call.wait
  /\ UNCHANGED balance /\ Frame
  /\ call' = Advance([call EXCEPT !.result = Awaited(call.awaiting),
                                  !.pend = @ \ {"op"}, !.wait = FALSE])

AsyncAfter == AsyncPredicate("post")
ResumeAfter == ResumePredicate("post")
AsyncConstantAfter == AsyncPredicate("ca")
ResumeConstantAfter == ResumePredicate("ca")

----------------------------------------------------------------------------

Next ==
  \/ \E mode \in FailureModes: setFailureMode(mode)
  \/ \E arg \in Args: Call(arg)
  \/ SyncConstantBefore
  \/ SyncBefore
  \/ SyncInvoke
  \/ SyncAfter
  \/ SyncConstantAfter
  \/ AsyncConstantBefore
  \/ ResumeConstantBefore
  \/ AsyncBefore
  \/ ResumeBefore
  \/ AsyncInvoke
  \/ ResumeInvoke
  \/ AsyncAfter
  \/ ResumeAfter
  \/ AsyncConstantAfter
  \/ ResumeConstantAfter

Spec == Init /\ [][Next]_vars

----------------------------------------------------------------------------
(* Progress of a call *)

\* Declarations with every choice of predicates, tracing off, no override
LiveDecls ==
  [kind: {"object"},
   before: {"absent", "fn"}, requires: {"absent"},
   after: {"absent", "fn"}, ensures: {"absent"},
   constant: {"absent", "fn"}, invariant: {"absent"},
   trace: {"false"}, failureMode: {"undefined"}]

InitLive ==
  /\ globalFailureMode = "log"
  /\ decl \in LiveDecls
  /\ spec = resolveSpec(decl)
  /\ form \in Forms
  /\ balance = 0
  /\ started = 0
  /\ call = IdleCall
  /\ klass = NoClass
  /\ sections = NoSections
  /\ build = NoBuild
  /\ other = IdleCall

\* one step of the call in progress: a stretch of wrapped(), runAsyncMethod
\* or runAsyncSetter up to the next await, or the resumption after an await
Step ==
  \/ SyncConstantBefore \/ SyncBefore \/ SyncInvoke \/ SyncAfter
  \/ SyncConstantAfter
  \/ AsyncConstantBefore \/ ResumeConstantBefore
  \/ AsyncBefore \/ ResumeBefore
  \/ AsyncInvoke \/ ResumeInvoke
  \/ AsyncAfter \/ ResumeAfter
  \/ AsyncConstantAfter \/ ResumeConstantAfter

\* Synchronous code runs on, and every awaited value settles and its
\* continuation is scheduled: a step that stays possible is taken.
SpecLive == InitLive /\ [][Next]_vars /\ WF_vars(Step)

----------------------------------------------------------------------------
(* One member in two builds: predicates that return their values, and *)
(* predicates that return promises of the same values                 *)

\* Declarations with every choice of predicates, tracing off, no override
BuildDecls == LiveDecls

\* what a predicate of the direct build returns
Direct == {Val(FALSE, v, 0) : v \in {"T", "F", "undef"}}

\* what the original returns: nothing or the field, directly or as promise
Operations == {Val(a, v, 0) : a \in BOOLEAN, v \in {"undef", "num"}}

\* a step without predicate has nothing to choose
Choice(stage) == IF Present(stage) THEN Direct ELSE {True}

InitBuild ==
  /\ globalFailureMode = "log"
  /\ decl \in BuildDecls
  /\ spec = resolveSpec(decl)
  /\ form \in Forms
  /\ balance = 0
  /\ started = 0
  /\ call = IdleCall
  /\ klass = NoClass
  /\ sections = NoSections
  /\ other = IdleCall
  /\ \E cb \in Choice("cb"), pre \in Choice("pre"), op \in Operations,
        post \in Choice("post"), ca \in Choice("ca") :
       build = [kind |-> "direct",
                values |-> [s \in StageSet |->
                             CASE s = "cb" -> cb [] s = "pre" -> pre
                               [] s = "op" -> op [] s = "post" -> post
                               [] OTHER -> ca],
                first |-> Outcome(IdleCall)]

\* The call of the direct build is over; the same member, declared with
\* predicates that return promises, is called in its place on a receiver
\* in the state the first call started from.
Rebuild ==
  /\ build.kind = "direct" /\ call.path = "done"
  /\ build' = [build EXCEPT !.kind = "promised", !.first = Outcome(call)]
  /\ balance' = call.entry
  /\ started' = started - 1
  /\ call' = IdleCall
  /\ UNCHANGED <<globalFailureMode, decl, spec, form, klass, sections,
                 other>>

NextBuild ==
  \/ \E mode \in FailureModes: setFailureMode(mode)
  \/ \E arg \in Args: Call(arg)
  \/ Rebuild
  \/ Step

SpecBuild == InitBuild /\ [][NextBuild]_vars

----------------------------------------------------------------------------
(* Two invocations of an async method that overlap on one receiver *)

\* @always({ constant: (self) => self.balance >= 0, trace: false })
AccountDecl ==
  [kind |-> "object",
   before |-> "absent", requires |-> "absent",
   after |-> "absent", ensures |-> "absent",
   constant |-> "fn", invariant |-> "absent",
   trace |-> "false", failureMode |-> "undefined"]

\* the account holds what earlier deposits left
InitOverlap ==
  /\ globalFailureMode = "log"
  /\ decl = AccountDecl
  /\ spec = resolveSpec(decl)
  /\ form = "method"
  /\ balance \in 0..MaxArg
  /\ started = 0
  /\ call = IdleCall
  /\ klass = NoClass
  /\ sections = NoSections
  /\ build = [NoBuild EXCEPT !.kind = "account"]
  /\ other = IdleCall

\* account.withdraw(arg) while an earlier invocation is suspended: wrapped()
\* has no guard, the new invocation starts at once
Overlap(arg) ==
  /\ call.path = "async" /\ call.wait
  /\ other.path = "idle"
  /\ started' = started + 1
  /\ other' = call
  /\ call' = Entered(arg)
  /\ UNCHANGED <<globalFailureMode, decl, spec, form, balance, klass,
                 sections, build>>

\* the invocation in progress is suspended or over, and the continuation
\* of the other one is the job that runs next
Switch ==
  /\ ~Running
  /\ other.path = "async" /\ other.wait
  /\ call' = other
  /\ other' = call
  /\ UNCHANGED <<globalFailureMode, decl, spec, form, balance, started,
                 klass, sections, build>>

NextOverlap ==
  \/ \E mode \in FailureModes: setFailureMode(mode)
  \/ \E arg \in Args: Call(arg)
  \/ \E arg \in Args: Overlap(arg)
  \/ Switch
  \/ SyncConstantBefore \/ SyncBefore \/ SyncInvoke
  \/ AsyncConstantBefore \/ ResumeConstantBefore
  \/ AsyncBefore
  \/ AsyncInvoke \/ ResumeInvoke
  \/ AsyncAfter
  \/ AsyncConstantAfter \/ ResumeConstantAfter

SpecOverlap == InitOverlap /\ [][NextOverlap]_vars

----------------------------------------------------------------------------
(* wrapClass: the class transform *)

\* Object.getOwnPropertyDescriptor(Base.prototype, key)
Descriptor(key) ==
  IF key = "flag" THEN [value |-> "-", get |-> TRUE, set |-> TRUE]
  ELSE [value |-> "function", get |-> FALSE, set |-> FALSE]

\* variant: the symbol-named properties are not enumerated
OwnKeysNamesOnly == OwnNames

\* [...getOwnPropertyNames(basePrototype),
\*  ...getOwnPropertySymbols(basePrototype)]
OwnKeys == OwnNames \cup OwnSymbols

\* the property the loop defines on Sub.prototype for one descriptor
Define(d) ==
  IF d.value = "function"
  THEN [value |-> "wrapMethod", get |-> "-", set |-> "-"]
  ELSE IF d.get \/ d.set
  THEN [value |-> "-", get |-> IF d.get THEN "getter" ELSE "-",
        set |-> IF d.set THEN "wrapSetter" ELSE "-"]
  ELSE NotDefined

SubPrototype ==
  [k \in Keys |-> IF k \in OwnKeys /\ k # "constructor"
                  THEN Define(Descriptor(k)) ELSE NotDefined]

\* methodSpec / setterSpec: { constant, trace, failureMode: failureOverride }
methodSpec(s) ==
  [before |-> FALSE, after |-> FALSE, constant |-> s.constant,
   trace |-> s.trace, failureMode |-> s.failureMode,
   src |-> [s.src EXCEPT !.before = "none", !.after = "none"]]

\* variant: a missing invariant is an error only under the throw override
wrapClassThrowsInThrowMode(s) == ~s.constant /\ s.failureMode = "throw"

\* typeof spec.constant !== "function"
wrapClassThrows(s) == ~s.constant

RequiresConstant ==
  [NoMsg EXCEPT
     !.head = "always class decorator requires { constant: (self) => boolean }"]

MustBeSynchronous ==
  [NoMsg EXCEPT
     !.head = "always class decorator invariants must be synchronous during construction"]

ConstructorMessage ==
  [NoMsg EXCEPT !.head = "Constant failed after constructor",
                !.cls = getClassName]

\* `!result`
IsFalsy(result) == ~result.async /\ result.v \in {"F", "undef", "null"}

\* variant: the event is emitted for every constructor check
SubConstructorTracesAlways(result, s, global, io) ==
  LET t == emitTrace(s.trace, "constant-constructor", io)
  IN  IF isPromiseLike(result)
      THEN [thrown |-> TRUE, msg |-> MustBeSynchronous, io |-> t.io]
      ELSE IF IsFalsy(result)
      THEN handleFailure(EffectiveMode(s, global), ConstructorMessage, t.io)
      ELSE [thrown |-> FALSE, msg |-> NoMsg, io |-> t.io]

\* the body of Sub's constructor after super(...), given what
\* constant(this) returned
SubConstructor(result, s, global, io) ==
  IF isPromiseLike(result)
  THEN [thrown |-> TRUE, msg |-> MustBeSynchronous, io |-> io]
  ELSE IF IsFalsy(result)
  THEN LET t == emitTrace(s.trace, "constant-constructor", io)
       IN  IF t.thrown
           THEN [thrown |-> TRUE, msg |-> SinkError, io |-> t.io]
           ELSE handleFailure(EffectiveMode(s, global), ConstructorMessage,
                              t.io)
  ELSE [thrown |-> FALSE, msg |-> NoMsg, io |-> io]

\* always(...) applied to a class: wrapClass(Base, spec)
WrapClass ==
  /\ klass.level = "class" /\ klass.phase = "declared"
  /\ IF wrapClassThrows(spec)
     THEN /\ klass' = [klass EXCEPT !.phase = "rejected",
                                    !.error = RequiresConstant]
          /\ UNCHANGED spec
     ELSE /\ klass' = [klass EXCEPT !.phase = "transformed",
                                    !.proto = SubPrototype]
          /\ spec' = methodSpec(spec)
  /\ UNCHANGED <<globalFailureMode, decl, form, balance, started, call,
                 sections, build, other>>

\* new Sub(...): super(...args) runs the base constructor (balance = 0)
SubSuper ==
  /\ klass.phase = "transformed"
  /\ ~Running
  /\ balance' = 0
  /\ klass' = [klass EXCEPT !.phase = "super",
                            !.ctor.log = Append(@, "super")]
  /\ UNCHANGED <<globalFailureMode, decl, spec, form, started, call,
                 sections, build, other>>

\* the rest of Sub's constructor
SubCheck ==
  /\ klass.phase = "super"
  /\ \E result \in PredValues:
       LET o == SubConstructor(result, spec, getFailureMode, klass.ctor.io)
       IN  klass' = [klass EXCEPT
                       !.phase = IF o.thrown THEN "failed" ELSE "built",
                       !.ctor.log = Append(@, "constant"),
                       !.ctor.got = result,
                       !.ctor.io = o.io,
                       !.ctor.status = IF o.thrown THEN "raised"
                                       ELSE "returned",
                       !.ctor.msg = o.msg]
  /\ UNCHANGED <<globalFailureMode, decl, spec, form, balance, started, call,
                 sections, build, other>>

\* the members of the instance that can be called or assigned to
Callable == Keys \ {"constructor"}

MemberForm(key) ==
  IF Descriptor(key).value = "function" THEN "method" ELSE "setter"

\* instance[key](arg) or instance[key] = arg: the property found on
\* Sub.prototype, or else the one of the base class and its ancestors
CallMember(key, arg) ==
  /\ klass.phase = "built"
  /\ call.path \in {"idle", "done"}
  /\ started < MaxCalls
  /\ started' = started + 1
  /\ form' = MemberForm(key)
  /\ klass' = [klass EXCEPT !.member = key, !.read = NoRead]
  /\ IF klass.proto[key].value = "wrapMethod"
          \/ klass.proto[key].set = "wrapSetter"
     THEN /\ call' = Entered(arg)
          /\ UNCHANGED balance
     ELSE /\ balance' = Original(MemberForm(key), balance, arg)
          /\ \E result \in ResultValues(balance'):
               call' = [IdleCall EXCEPT
                          !.path = "done", !.arg = arg, !.log = <<"op">>,
                          !.entry = balance, !.wrote = balance',
                          !.result = Awaited(result),
                          !.asyncSeen = result.async,
                          !.out = [NoOut EXCEPT !.status = "returned",
                                                !.pending = result.async,
                                                !.value = Awaited(result)]]
  /\ UNCHANGED <<globalFailureMode, decl, spec, sections, build, other>>

\* get flag() { return this.balance > 0 }
Get(field) == field > 0

\* variant: the original getter is called without the receiver
getterUnbound(field) == Get(0)

\* function getter() { return get.call(this) }
getter(field) == Get(field)

\* instance.flag: Sub.prototype's getter, or else the base class's own;
\* always(...) on a setter replaces the setter only, the getter of the
\* property stays the original
GetterRead(key) ==
  /\ klass.phase = "built" \/ (klass.level = "member" /\ form = "setter")
  /\ call.path \in {"idle", "done"}
  /\ Descriptor(key).get
  /\ klass' = [klass EXCEPT
                 !.read = [done |-> TRUE,
                           value |-> IF klass.proto[key].get = "getter"
                                     THEN getter(balance) ELSE Get(balance)]]
  /\ UNCHANGED <<globalFailureMode, decl, spec, form, balance, started, call,
                 sections, build, other>>

\* Declarations given to the class decorator: with or without an
\* invariant, and with a precondition and a postcondition
ClassDecls ==
  [kind: {"object"},
   before: {"fn"}, requires: {"absent"},
   after: {"fn"}, ensures: {"absent"},
   constant: {"absent", "fn"}, invariant: {"absent"},
   trace: {"false", "sink"},
   failureMode: {"undefined", "log"}]

\* Declarations of a member with all three predicates, under every trace
\* setting
TraceDecls ==
  [kind: {"object"},
   before: {"fn"}, requires: {"absent"},
   after: {"fn"}, ensures: {"absent"},
   constant: {"fn"}, invariant: {"absent"},
   trace: {"undefined", "false", "sink", "badsink"},
   failureMode: {"undefined"}]

InitClass ==
  /\ globalFailureMode = "log"
  /\ \/ /\ decl \in ClassDecls
        /\ form = "method"
        /\ klass = [NoClass EXCEPT !.level = "class", !.phase = "declared"]
     \/ /\ decl \in TraceDecls
        /\ form \in Forms
        /\ klass = NoClass
  /\ spec = resolveSpec(decl)
  /\ balance = 0
  /\ started = 0
  /\ call = IdleCall
  /\ sections = NoSections
  /\ build = NoBuild
  /\ other = IdleCall

NextClass ==
  \/ \E mode \in FailureModes: setFailureMode(mode)
  \/ \E arg \in Args: Call(arg)
  \/ WrapClass
  \/ SubSuper
  \/ SubCheck
  \/ \E key \in Callable, arg \in Args: CallMember(key, arg)
  \/ \E key \in Keys: GetterRead(key)
  \/ SyncConstantBefore
  \/ SyncBefore
  \/ SyncInvoke
  \/ SyncAfter
  \/ SyncConstantAfter
  \/ AsyncConstantBefore
  \/ ResumeConstantBefore
  \/ AsyncBefore
  \/ ResumeBefore
  \/ AsyncInvoke
  \/ ResumeInvoke
  \/ AsyncAfter
  \/ ResumeAfter
  \/ AsyncConstantAfter
  \/ ResumeConstantAfter

SpecClass == InitClass /\ [][NextClass]_vars

----------------------------------------------------------------------------
(* A base class whose constructor calls a member of the instance *)

\* Class declarations with an invariant
CtorDecls == {d \in ClassDecls : d.constant = "fn"}

InitCtor ==
  /\ globalFailureMode = "log"
  /\ decl \in CtorDecls
  /\ spec = resolveSpec(decl)
  /\ form = "method"
  /\ balance = 0
  /\ started = 0
  /\ call = IdleCall
  /\ klass = [NoClass EXCEPT !.level = "class", !.phase = "declared"]
  /\ sections = NoSections
  /\ build = NoBuild
  /\ other = IdleCall

\* the members wrapClass has defined on Sub.prototype with a wrapper
Wrapped(key) ==
  klass.proto[key].value = "wrapMethod" \/ klass.proto[key].set = "wrapSetter"

\* new Sub(...): super(...args) runs the base constructor, which sets the
\* field and then calls this[key](arg) or assigns this[key] = arg; the
\* receiver is an instance of Sub, so the property is Sub.prototype's
SuperCalls(key, arg) ==
  /\ klass.phase = "transformed"
  /\ ~Running
  /\ Wrapped(key)
  /\ balance' = 0
  /\ started' = started + 1
  /\ form' = MemberForm(key)
  /\ klass' = [klass EXCEPT !.phase = "calling", !.member = key]
  /\ call' = Entered(arg)
  /\ UNCHANGED <<globalFailureMode, decl, spec, sections, build, other>>

\* the member has returned, thrown or handed back a promise: the base
\* constructor ends, or the error ends the construction
SuperReturns ==
  /\ klass.phase = "calling"
  /\ ~Running
  /\ klass' = IF call.out.status = "raised" /\ ~call.out.pending
               THEN [klass EXCEPT !.phase = "failed",
                                  !.ctor.status = "raised",
                                  !.ctor.msg = call.out.msg]
               ELSE [klass EXCEPT !.phase = "super",
                                  !.ctor.log = Append(@, "super")]
  /\ UNCHANGED <<globalFailureMode, decl, spec, form, balance, started, call,
                 sections, build, other>>

\* a continuation runs only when the constructor has returned
NextCtor ==
  \/ \E mode \in FailureModes: setFailureMode(mode)
  \/ WrapClass
  \/ SubSuper
  \/ \E key \in Callable, arg \in Args: SuperCalls(key, arg)
  \/ SuperReturns
  \/ SubCheck
  \/ SyncConstantBefore
  \/ SyncBefore
  \/ SyncInvoke
  \/ SyncAfter
  \/ SyncConstantAfter
  \/ AsyncConstantBefore
  \/ ~ConstructorRunning /\ ResumeConstantBefore
  \/ AsyncBefore
  \/ AsyncInvoke
  \/ ~ConstructorRunning /\ ResumeInvoke
  \/ AsyncAfter
  \/ AsyncConstantAfter
  \/ ~ConstructorRunning /\ ResumeConstantAfter

SpecCtor == InitCtor /\ [][NextCtor]_vars

----------------------------------------------------------------------------
(* Scoped sections: prev = setFailureMode(m); ...; setFailureMode(prev) *)

EmptyDecl ==
  [kind |-> "object",
   before |-> "absent", requires |-> "absent",
   after |-> "absent", ensures |-> "absent",
   constant |-> "absent", invariant |-> "absent",
   trace |-> "false", failureMode |-> "undefined"]

\* const previous = setFailureMode(mode)
SectionEnter(mode) ==
  /\ sections.entered < MaxSections
  /\ LET c == setFailureModeCall(globalFailureMode, mode)
     IN  /\ globalFailureMode' = c.global
         /\ sections' =
              [stack |-> Append(sections.stack,
                                [prev |-> c.returned,
                                 began |-> globalFailureMode,
                                 mode |-> mode]),
               entered |-> sections.entered + 1,
               base |-> IF sections.stack = <<>> THEN globalFailureMode
                        ELSE sections.base]
  /\ UNCHANGED <<decl, spec, form, balance, started, call, klass,
                 build, other>>

\* finally { setFailureMode(previous) } of the innermost open section
SectionExit ==
  /\ sections.stack # <<>>
  /\ LET top == sections.stack[Len(sections.stack)]
         c == setFailureModeCall(globalFailureMode, top.prev)
     IN  /\ globalFailureMode' = c.global
         /\ sections' =
              [sections EXCEPT
                 !.stack = SubSeq(@, 1, Len(@) - 1)]
  /\ UNCHANGED <<decl, spec, form, balance, started, call, klass,
                 build, other>>

InitMode ==
  /\ globalFailureMode = "log"
  /\ decl = EmptyDecl
  /\ spec = resolveSpec(decl)
  /\ form = "method"
  /\ balance = 0
  /\ started = 0
  /\ call = IdleCall
  /\ klass = NoClass
  /\ sections = NoSections
  /\ build = NoBuild
  /\ other = IdleCall

NextMode ==
  \/ \E mode \in FailureModes: setFailureMode(mode)
  \/ \E mode \in FailureModes: SectionEnter(mode)
  \/ SectionExit

SpecMode == InitMode /\ [][NextMode]_vars

----------------------------------------------------------------------------
(* Sections that overlap: each awaits its own work, so they end in any order *)

Remove(stack, i) ==
  SubSeq(stack, 1, i - 1) \o SubSeq(stack, i + 1, Len(stack))

\* finally { setFailureMode(previous) } of any open section, once the work
\* it awaits has settled
SectionLeave(i) ==
  /\ i \in DOMAIN sections.stack
  /\ LET c == setFailureModeCall(globalFailureMode, sections.stack[i].prev)
     IN  /\ globalFailureMode' = c.global
         /\ sections' = [sections EXCEPT !.stack = Remove(@, i)]
  /\ UNCHANGED <<decl, spec, form, balance, started, call, klass,
                 build, other>>

\* the mode is set freely before the first section; afterwards only the
\* sections set it
NextRace ==
  \/ \E mode \in FailureModes: sections.entered = 0 /\ setFailureMode(mode)
  \/ \E mode \in FailureModes: SectionEnter(mode)
  \/ \E i \in 1..MaxSections: SectionLeave(i)

SpecRace == InitMode /\ [][NextRace]_vars

----------------------------------------------------------------------------
(* The resolver on every shape of argument *)

FieldValues == {"absent", "null", "fn", "other"}

\* the arguments always() is applied to: objects with any value in the six
\* predicate fields, a callable, and a value that is neither
Inputs ==
  [kind: {"object"},
   before: FieldValues, requires: FieldValues,
   after: FieldValues, ensures: FieldValues,
   constant: FieldValues, invariant: FieldValues,
   trace: {"undefined"}, failureMode: {"undefined"}]
    \cup {[EmptyDecl EXCEPT !.kind = k] : k \in {"function", "undefined"}}

\* form "none": the member is not decorated yet and no spec is resolved
InitResolve ==
  /\ globalFailureMode = "log"
  /\ decl \in Inputs
  /\ spec = resolveSpec(EmptyDecl)
  /\ form = "none"
  /\ balance = 0
  /\ started = 0
  /\ call = IdleCall
  /\ klass = NoClass
  /\ sections = NoSections
  /\ build = NoBuild
  /\ other = IdleCall

\* @always(decl) on a member: the spec is resolved, the member is wrapped
\* according to context.kind
always(kind) ==
  /\ form = "none"
  /\ form' = kind
  /\ spec' = resolveSpec(decl)
  /\ UNCHANGED <<globalFailureMode, decl, balance, started, call, klass,
                 sections, build, other>>

NextResolve == \E kind \in Forms: always(kind)

SpecResolve == InitResolve /\ [][NextResolve]_vars

----------------------------------------------------------------------------
(* Properties *)

Count(seq, x) == Cardinality({i \in DOMAIN seq : seq[i] = x})

\* how often the original was invoked in the current call
Invoked == Count(call.log, "op")

\* console.error lines written by the current call
Diagnostics ==
  Cardinality({i \in DOMAIN call.io : call.io[i].ch = "console.error"})

Rank(s) ==
  CASE s = "cb" -> 1 [] s = "pre" -> 2 [] s = "op" -> 3
    [] s = "post" -> 4 [] OTHER -> 5

Ordered(log) ==
  \A i, j \in DOMAIN log : i < j => Rank(log[i]) < Rank(log[j])

ExpectedHead(stage) ==
  CASE stage = "cb" -> "Constant failed before"
    [] stage = "pre" -> "Before failed"
    [] stage = "post" -> "After failed"
    [] OTHER -> "Constant failed after"

BeforeKinds == {"constant-before", "before", "setter-before"}
AfterKinds == {"after", "setter-after", "constant-after"}

\* C1: the steps of a call are evaluated in the order invariant-before,
\* precondition, invocation, postcondition, invariant-after, and no step is
\* evaluated while the promise of another step is still unresolved.
C1_StageOrder == Ordered(call.log) /\ ~call.early

\* C2: once the invariant-before or the precondition has returned false,
\* directly or through a promise, the original is not invoked in that call.
C2_FailedGuardNeverInvokes ==
  (call.refuted \cap {"cb", "pre"} # {}) => Invoked = 0

C2_Witness ==
  /\ call.path = "done" /\ "pre" \in call.refuted /\ call.asyncSeen
  /\ call.failed \in {"before", "setter-before"} /\ Invoked = 0

\* C3: the original is invoked at most once per call, and exactly once in a
\* call whose invariant-before and precondition passed.
C3_InvokedExactlyOnce ==
  /\ Invoked <= 1
  /\ (call.path = "done" /\ call.failed \notin BeforeKinds) => Invoked = 1

\* C4: within one call the precondition, the postcondition, the
\* invariant-before and the invariant-after are each evaluated at most once.
C4_NoPredicateTwice ==
  \A stage \in {"cb", "pre", "post", "ca"} : Count(call.log, stage) <= 1

C4_Witness ==
  /\ call.path = "done" /\ call.failed = "-"
  /\ call.initial["pre"] = True /\ call.initial["post"] = True
  /\ call.initial["ca"].async
  /\ \A stage \in {"cb", "pre", "post", "ca"} : Count(call.log, stage) = 1

\* C5: as long as no predicate and no invocation of the original has
\* returned a promise, the call stays in the synchronous body, is never
\* suspended, and the caller gets no pending result.
C5_SyncStaysSync ==
  ~call.asyncSeen =>
    /\ call.path \in {"idle", "sync", "done"}
    /\ ~call.wait
    /\ ~call.out.pending

C5_Witness ==
  /\ call.path = "done" /\ ~call.asyncSeen /\ Len(call.log) = 5
  /\ call.out.status = "returned" /\ ~call.out.pending

\* the steps the spec has are all evaluated and nothing is unresolved
AllStagesCompleted ==
  /\ call.pend = {}
  /\ "op" \in {call.log[i] : i \in DOMAIN call.log}
  /\ \A stage \in {"cb", "pre", "post", "ca"} :
       Present(stage) => stage \in {call.log[i] : i \in DOMAIN call.log}

\* C6: once a predicate or the original has returned a promise, the caller
\* holds a pending result, and that result is settled only when a violation
\* has been reported or every step up to invariant-after has completed.
C6_AsyncYieldsPending ==
  call.asyncSeen =>
    /\ call.out.pending
    /\ call.out.status # "none" => (call.failed # "-" \/ AllStagesCompleted)

C6_Witness ==
  /\ call.path = "done" /\ call.asyncSeen /\ call.failed = "-"
  /\ call.out.pending /\ call.out.status = "returned"
  /\ Len(call.log) = 5

\* C7: a finished call whose effective failure mode is log has returned (not
\* raised); it wrote one diagnostic if a violation was found and none
\* otherwise; it returned undefined if the original was never invoked and
\* the result of the original otherwise.
C7_LogModeNeverRaises ==
  (call.path = "done" /\ call.failureMode = "log") =>
    /\ call.out.status = "returned"
    /\ call.refuted # {} => call.failed # "-"
    /\ Diagnostics = (IF call.failed # "-" THEN 1 ELSE 0)
    /\ call.out.value = (IF Invoked = 0 THEN Undefined ELSE call.result)

C7_Witness ==
  /\ call.path = "done" /\ call.failureMode = "log"
  /\ call.failed \in {"after", "setter-after"}
  /\ Diagnostics = 1 /\ call.out.value.v = "num"

\* the value the step returned is no promise still to be awaited, and the
\* call is not suspended at the await of that step
Settled(stage) ==
  stage \notin call.pend /\ ~(call.wait /\ call.stage = stage)

\* C8: in throw mode, once a step's predicate is known to be false the call
\* has raised (synchronously, or as rejection of the pending result when
\* some value was a promise) an error whose message names that step.
C8_ThrowModeRaises ==
  call.failureMode = "throw" =>
    \A stage \in {st \in call.refuted : Settled(st)} :
      /\ call.out.status = "raised"
      /\ call.out.msg.head = ExpectedHead(stage)
      /\ call.out.pending = call.asyncSeen

C8_Witness ==
  /\ call.failureMode = "throw" /\ "ca" \in call.refuted
  /\ call.out.status = "raised" /\ call.out.pending
  /\ call.out.msg.head = "Constant failed after"

\* C9: when a postcondition or invariant-after failure is reported, the
\* original has run and the receiver's field is as the original left it.
C9_NoRollback ==
  call.failed \in AfterKinds => (Invoked >= 1 /\ balance = call.wrote)

C9_Witness ==
  /\ form = "method" /\ call.failed = "constant-after"
  /\ call.out.status = "raised" /\ balance < 0 /\ Invoked = 1

Used(r) == IF r.out.status = "raised" THEN "throw" ELSE "log"

\* C10: a call takes the spec's failureMode override as its failure mode
\* when the declaration has one ("log" or "throw") and the process-wide
\* mode otherwise, and a violation is raised exactly when that mode is
\* throw.
C10_OverridePrecedence ==
  [][/\ (call.path \in {"idle", "done"} /\ call'.path = "sync") =>
          call'.failureMode =
            (IF decl.failureMode \in FailureModes THEN decl.failureMode
             ELSE globalFailureMode)
     /\ (call.failed = "-" /\ call'.failed # "-") =>
          (Used(call') = call.failureMode
             /\ call'.failureMode = call.failureMode)]_vars

C10_Witness ==
  /\ decl.failureMode = "log" /\ globalFailureMode = "throw"
  /\ call.failed # "-" /\ call.out.status = "returned"

----------------------------------------------------------------------------
(* Properties of the failure mode, the class transform and the tracer *)

Top(stack) == stack[Len(stack)]

\* C11: setFailureMode(m) makes m the process-wide mode and returns the mode
\* that was in effect just before; leaving a section
\* prev = setFailureMode(m); ...; setFailureMode(prev), be it alone, after
\* another one or nested in another one, makes the process-wide mode what it
\* was when the section began.
C11_ScopedRestore ==
  [][/\ Len(sections'.stack) > Len(sections.stack) =>
          /\ globalFailureMode' = Top(sections'.stack).mode
          /\ Top(sections'.stack).prev = globalFailureMode
     /\ Len(sections'.stack) < Len(sections.stack) =>
          globalFailureMode' = Top(sections.stack).began]_vars

C11_Witness ==
  /\ Len(sections.stack) = 1 /\ sections.entered >= 3
  /\ sections.stack[1].began = "throw" /\ sections.stack[1].mode = "log"
  /\ globalFailureMode = "log"

\* C12: a class declaration without invariant is rejected by the transform
\* itself, before any construction or call, and a constructor check whose
\* invariant returns a promise makes the construction raise, whatever the
\* process-wide mode and the override are.
C12_ConfigErrorsFatal ==
  /\ (klass.level = "class" /\ klass.phase # "declared"
        /\ decl.constant = "absent") =>
       /\ klass.phase = "rejected" /\ klass.error = RequiresConstant
       /\ klass.ctor = NoCtor /\ started = 0
  /\ (klass.ctor.status # "none" /\ klass.ctor.got.async) =>
       /\ klass.phase = "failed" /\ klass.ctor.status = "raised"
       /\ klass.ctor.msg = MustBeSynchronous

C12_Witness ==
  /\ decl.failureMode = "log" /\ globalFailureMode = "log"
  /\ klass.ctor.got.async /\ klass.phase = "failed"

IsError(line) == line.ch = "console.error"
IsTrace(line) == line.ch \in {"sink", "console.trace"}

ErrorLines(io) == SelectSeq(io, IsError)
TraceLines(io) == SelectSeq(io, IsTrace)

\* C13: the constructor of the transformed class evaluates the invariant
\* once, after the base constructor; when the invariant returns false, in
\* log mode one diagnostic "Constant failed after constructor: <Class>" is
\* written and the instance is returned, in throw mode the construction
\* raises that error; when it returns true nothing is written.
C13_ConstructorCheck ==
  [][(klass.phase = "super" /\ klass'.phase # "super") =>
       LET c == klass'.ctor
           mode == IF decl.failureMode \in FailureModes
                   THEN decl.failureMode ELSE globalFailureMode
       IN  /\ c.log = <<"super", "constant">>
           /\ balance' = balance
           /\ (~c.got.async /\ c.got.v = "F") =>
                /\ c.msg.head = "Constant failed after constructor"
                /\ IF mode = "log"
                   THEN /\ klass'.phase = "built" /\ c.status = "returned"
                        /\ Len(ErrorLines(c.io)) = 1
                        /\ ErrorLines(c.io)[1].msg = c.msg
                   ELSE /\ klass'.phase = "failed" /\ c.status = "raised"
                        /\ ErrorLines(c.io) = <<>>
           /\ (~c.got.async /\ c.got.v = "T") =>
                (klass'.phase = "built" /\ c.io = <<>>)]_vars

C13_Witness ==
  /\ klass.phase = "built" /\ klass.ctor.got.v = "F"
  /\ Len(ErrorLines(klass.ctor.io)) = 1
  /\ klass.ctor.log = <<"super", "constant">>

\* the methods and setters defined on the base class itself
DirectMembers == {"withdraw", "sym", "flag"}

\* C14: a call of a method or setter defined on the base class itself,
\* string-named or symbol-named, evaluates the invariant first, evaluates
\* it again after the original has run, and evaluates no precondition and
\* no postcondition, also when the class declaration has them.
C14_MembersCheckInvariant ==
  (klass.level = "class" /\ klass.member \in DirectMembers) =>
    /\ call.log # <<>> => call.log[1] = "cb"
    /\ (call.path = "done" /\ Invoked >= 1) => Count(call.log, "ca") = 1
    /\ Count(call.log, "pre") = 0 /\ Count(call.log, "post") = 0
    /\ call.failed \in {"-", "constant-before", "constant-after"}

C14_Witness ==
  /\ klass.member = "sym" /\ decl.before = "fn" /\ decl.after = "fn"
  /\ call.path = "done" /\ call.log = <<"cb", "op", "ca">>

\* C15: a read through an accessor of a transformed instance, or of a
\* property whose setter is decorated, returns what the original getter
\* returns and changes nothing: no predicate is evaluated, no event and no
\* diagnostic is written, no error is raised.
C15_ReadsAreUnchecked ==
  [][(klass'.read.done /\ klass'.read # klass.read) =>
       /\ klass'.read.value = (balance > 0)
       /\ call' = call /\ balance' = balance
       /\ klass'.ctor = klass.ctor]_vars

C15_Witness ==
  /\ klass.level = "class" /\ klass.read.done
  /\ call.failed = "constant-after" /\ balance < 0

ClassNames(io) == {io[i].msg.cls : i \in DOMAIN io}

\* C16: under a class-level contract every failure message and every trace
\* event, of a member call and of the constructor check, carries the
\* declared name of the decorated class.
C16_DeclaredClassName ==
  klass.level = "class" =>
    /\ ClassNames(call.io) \cup ClassNames(klass.ctor.io) \subseteq
         {DeclaredName}
    /\ {call.out.msg.cls, klass.ctor.msg.cls} \subseteq {"-", DeclaredName}

\* C17: once a failure of a step is reported, with tracing enabled exactly
\* one trace event, of that step's kind, has been delivered, and it comes
\* before the diagnostic and before the error; with trace: false no event
\* is delivered and the failure is reported all the same.
C17_TraceBeforeReport ==
  call.failed # "-" =>
    /\ IF call.failureMode = "throw"
       THEN call.out.status = "raised" /\ ErrorLines(call.io) = <<>>
       ELSE call.out.status = "returned" /\ Len(ErrorLines(call.io)) = 1
    /\ IF spec.trace = "false" THEN TraceLines(call.io) = <<>>
       ELSE /\ Len(TraceLines(call.io)) = 1
            /\ IsTrace(call.io[1])
            /\ call.io[1].kind = call.failed
            /\ call.io[1].ch = (IF spec.trace = "undefined"
                                THEN "console.trace" ELSE "sink")

C17_Witness ==
  /\ spec.trace = "sink" /\ call.failed = "after"
  /\ call.failureMode = "log" /\ Len(call.io) = 2
  /\ IsError(call.io[2])

\* what a caller and the console see of a call
Observable(r) ==
  [path |-> r.path, out |-> r.out, failed |-> r.failed, log |-> r.log,
   errors |-> ErrorLines(r.io)]

\* C18: at whatever step a call is when the step fails, the report made
\* with a sink that throws leaves the call as the report made with tracing
\* disabled does: same value returned, same error raised, same diagnostic,
\* same invocations of the original; the sink's exception reaches no
\* caller.
C18_ThrowingSinkSwallowed ==
  /\ (call.path \in {"sync", "async"} /\ call.stage # "op") =>
       Observable(ReportedUnder("badsink", call, call.stage,
                                ReportedResult(call.stage, call)))
         = Observable(ReportedUnder("false", call, call.stage,
                                    ReportedResult(call.stage, call)))
  /\ call.out.msg # SinkError

C18_Witness ==
  /\ spec.trace = "badsink" /\ call.failed = "setter-after"
  /\ call.out.status = "raised" /\ call.out.msg.head = "After failed"
  /\ Len(TraceLines(call.io)) = 1

\* predicate evaluations of the current call
Checks == Len(call.log) - Invoked

\* C19 as stated: with tracing enabled, a finished call has one trace event
\* for every check it performed, and so has the constructor.
C19_EventPerCheck ==
  (spec.trace # "false" /\ call.path = "done") =>
    /\ Len(TraceLines(call.io)) = Checks
    /\ Len(TraceLines(klass.ctor.io)) = Count(klass.ctor.log, "constant")

\* C19: with tracing enabled, a trace event is emitted for each check that
\* fails (invariant-before, precondition, postcondition, invariant-after,
\* constructor check) and for no check that passes.
C19_EventPerFailedCheck ==
  spec.trace # "false" =>
    /\ Len(TraceLines(call.io)) = (IF call.failed # "-" THEN 1 ELSE 0)
    /\ \A i \in DOMAIN call.io :
         IsTrace(call.io[i]) => call.io[i].kind = call.failed
    /\ \A stage \in call.refuted :
         Settled(stage) => call.failed = FailureKind(form, stage)
    /\ Len(TraceLines(klass.ctor.io)) =
         (IF klass.ctor.status # "none" /\ IsFalsy(klass.ctor.got)
          THEN 1 ELSE 0)
    /\ \A i \in DOMAIN klass.ctor.io :
         IsTrace(klass.ctor.io[i]) =>
           klass.ctor.io[i].kind = "constant-constructor"

C19_Witness ==
  /\ spec.trace = "sink" /\ klass.ctor.got.v = "F"
  /\ Len(TraceLines(klass.ctor.io)) = 1
  /\ call.path = "done" /\ call.failed = "-"
  /\ call.log = <<"cb", "op", "ca">> /\ call.io = <<>>

\* a method decorated with no precondition, postcondition or invariant
EmptySpec ==
  form = "method" /\ ~spec.before /\ ~spec.after /\ ~spec.constant

\* what the original returned in the current call, promise or not
ReturnedByOriginal ==
  IF call.initial["op"].async THEN call.initial["op"] ELSE call.result

\* the original ran once, on the receiver, with the argument of the call,
\* and nothing was reported
InvokedOnceSilently ==
  /\ Invoked = 1 /\ balance = call.entry - call.arg
  /\ call.failed = "-" /\ call.io = <<>>
  /\ call.out.status = "returned"

\* C20 as stated: a finished call of a method with an empty spec has
\* invoked the original once with its argument, reported nothing and
\* handed the caller the very value the original returned.
C20_PassThroughIdentity ==
  (EmptySpec /\ call.path = "done") =>
    /\ InvokedOnceSilently
    /\ ~call.out.pending /\ call.out.value = ReturnedByOriginal

\* C20: a finished call of a method with an empty spec has invoked the
\* original once with its argument and reported nothing; the caller got
\* the value the original returned, or, when that was a promise, a promise
\* of the engine that settles to what the original's promise settled to.
C20_PassThrough ==
  (EmptySpec /\ call.path = "done") =>
    /\ InvokedOnceSilently
    /\ call.out.pending = ReturnedByOriginal.async
    /\ call.out.value = Awaited(ReturnedByOriginal)

C20_Witness ==
  /\ EmptySpec /\ call.path = "done" /\ globalFailureMode = "throw"
  /\ call.out.pending /\ call.out.value.v = "num" /\ Invoked = 1

----------------------------------------------------------------------------
(* Properties of setters, the two builds, the resolver, the mode in use,   *)
(* overlapping invocations, progress, and construction                     *)

\* the messages of the current call: diagnostics written and error raised
Messages ==
  {call.io[i].msg : i \in {j \in DOMAIN call.io :
                             call.io[j].ch = "console.error"}}
    \cup (IF call.out.status = "raised" THEN {call.out.msg} ELSE {})

\* C21: once the precondition of a wrapped setter is known to have failed,
\* the underlying setter has not been invoked, the field is as it was when
\* the call began, and the one message of the call reads
\* 'Before failed: <Class>.set <member>(<value>)'.
C21_SetterGuard ==
  (form = "setter" /\ "pre" \in call.refuted /\ Settled("pre")) =>
    /\ call.failed = "setter-before"
    /\ Invoked = 0 /\ balance = call.entry
    /\ Messages = {[head |-> "Before failed", cls |-> DeclaredName,
                    form |-> "setter", arg |-> call.arg,
                    hasResult |-> FALSE, result |-> Undefined]}

C21_Witness ==
  /\ form = "setter" /\ call.path = "done" /\ "pre" \in call.refuted
  /\ ~call.asyncSeen /\ call.failed = "setter-before"
  /\ call.out.status = "raised" /\ call.out.msg.form = "setter"
  /\ call.out.msg.arg = call.arg /\ balance = call.entry

\* the call in progress is the call of the promised build, finished, and
\* began with the field and the failure mode the call of the direct build
\* began with
BothBuildsDone ==
  /\ build.kind = "promised" /\ call.path = "done"
  /\ call.entry = build.first.entry
  /\ call.failureMode = build.first.mode

BooleanValues ==
  \A s \in StageSet \ {"op"} : build.values[s].v \in {"T", "F"}

\* C22: with the same operation and the same boolean value for each
\* predicate, the call of the build whose predicates return promises fails
\* at the same step, evaluates the same predicates, invokes the original as
\* often and gives the same messages as the call of the build whose
\* predicates return the booleans directly.
C22_AsyncSyncEquivalence ==
  (BothBuildsDone /\ BooleanValues) => Outcome(call) = build.first

\* the field a check is taken from when a function-valued primary field
\* wins, a function-valued alias comes next, and any other value counts as
\* absent
Uniform(primary, alias) ==
  IF decl[primary] = "fn" THEN primary
  ELSE IF decl[alias] = "fn" THEN alias
  ELSE "none"

\* C23: the resolved spec takes each of precondition, postcondition and
\* invariant from the primary field when that is a function, else from the
\* alias when that is a function, else has none; a callable argument
\* resolves to a spec with that callable as invariant and nothing else.
C23_ResolverUniform ==
  form # "none" =>
    /\ decl.kind = "object" =>
         spec.src = [before |-> Uniform("before", "requires"),
                     after |-> Uniform("after", "ensures"),
                     constant |-> Uniform("constant", "invariant")]
    /\ decl.kind = "function" =>
         spec.src = [before |-> "none", after |-> "none",
                     constant |-> "input"]

NoOverride == decl.failureMode \notin FailureModes

\* C24 as stated: a violation of a call without an override is reported
\* with the process-wide mode in effect when the check failed.
C24_ModeAtCheckTime ==
  (call.failed # "-" /\ NoOverride) => Used(call) = call.atCheck

\* C24: a call without an override takes the process-wide mode in effect
\* when the call begins, keeps it while it is suspended whatever
\* setFailureMode does meanwhile, and reports a violation with it.
C24_ModeAtEntry ==
  [][NoOverride =>
       /\ (call.path \in {"idle", "done"} /\ call'.path = "sync") =>
            call'.failureMode = globalFailureMode
       /\ (call.path \in {"sync", "async"}) =>
            call'.failureMode = call.failureMode
       /\ (call.failed = "-" /\ call'.failed # "-") =>
            Used(call') = call.failureMode]_vars

C24_Witness ==
  /\ NoOverride /\ call.failed # "-" /\ call.asyncSeen
  /\ call.atCheck # call.failureMode
  /\ call.failureMode = "log" /\ call.out.status = "returned"
  /\ Diagnostics = 1

\* C25: nothing keeps two invocations on one receiver apart: an invariant
\* check of an invocation returns false exactly when the receiver's field is
\* negative at that moment, whichever invocation's operation wrote it, and
\* a false invariant-after check is reported as 'Constant failed after'.
C25_ChecksObserveSharedState ==
  /\ [][other' = other =>
          \A stage \in {"cb", "ca"} :
            call'.log = Append(call.log, stage) =>
              (stage \in call'.refuted <=> balance < 0)]_vars
  /\ []((call.path = "done" /\ "ca" \in call.refuted) <=>
          call.failed = "constant-after")

\* the invocation has reported 'Constant failed after' on a field the other
\* invocation's operation made negative, while its own operation applied to
\* the field it started from leaves it non-negative
C25_Witness ==
  /\ call.failed = "constant-after"
  /\ Messages = {[head |-> "Constant failed after", cls |-> DeclaredName,
                  form |-> "method", arg |-> call.arg,
                  hasResult |-> TRUE, result |-> Undefined]}
  /\ Original("method", call.entry, call.arg) >= 0
  /\ Count(other.log, "op") = 1 /\ balance < 0

InProgress(r) == r.path \in {"sync", "async"}

\* C26: a call in progress stays in progress until it returns or raises,
\* it returns without a failure only after every step has completed, and,
\* every awaited value settling, it does return or raise, not suspended at
\* any step.
C26_RunsToCompletion ==
  /\ [][InProgress(call) =>
          \/ InProgress(call')
          \/ /\ call'.path = "done" /\ ~call'.wait
             /\ call'.out.status \in {"returned", "raised"}
             /\ call'.failed = "-" =>
                  (call'.out.status = "returned" /\ AllStagesCompleted')]_vars
  /\ InProgress(call) ~> (call.path = "done" /\ ~call.wait)

C26_Witness ==
  /\ call.path = "done" /\ call.out.pending /\ call.out.status = "raised"
  /\ call.failed = "constant-after" /\ Len(call.log) = 5
  /\ call.initial["cb"].async

\* C27: nothing orders the restores of overlapping sections: whichever open
\* section ends, innermost or not, its restore makes the process-wide mode
\* what that section found when it began, so two sections that end in the
\* order they began leave the mode the first one had set.
C27_RestoreIsPlainWrite ==
  [][Len(sections'.stack) < Len(sections.stack) =>
       \E i \in DOMAIN sections.stack :
         /\ sections'.stack = Remove(sections.stack, i)
         /\ globalFailureMode' = sections.stack[i].began]_vars

\* A began, B began, A ended, B ended, and the mode is not the one before A
C27_Witness ==
  /\ sections.stack = <<>> /\ sections.entered = 2
  /\ globalFailureMode # sections.base

\* the step whose failure has the kind `kind`
StageOf(kind) ==
  CASE kind = "constant-before" -> "cb"
    [] kind \in {"before", "setter-before"} -> "pre"
    [] kind \in {"after", "setter-after"} -> "post"
    [] OTHER -> "ca"

\* diagnostics written plus error raised by the current call
Violations == Diagnostics + (IF call.out.status = "raised" THEN 1 ELSE 0)

\* C28: a call reports at most one violation: once a step has failed the
\* call is over, no step after the failing one was evaluated, and the call
\* has produced exactly one diagnostic or error and at most one trace
\* event; a call without a failure has produced none.
C28_OneViolationPerCall ==
  /\ Violations <= 1 /\ Len(TraceLines(call.io)) <= 1
  /\ call.failed = "-" => (Violations = 0 /\ call.io = <<>>)
  /\ call.failed # "-" =>
       /\ call.path = "done" /\ Violations = 1
       /\ \A i \in DOMAIN call.log :
            Rank(call.log[i]) <= Rank(StageOf(call.failed))
       /\ Count(call.log, StageOf(call.failed)) = 1

C28_Witness ==
  /\ call.path = "done" /\ call.failureMode = "log"
  /\ call.failed \in {"after", "setter-after"} /\ Present("ca")
  /\ Diagnostics = 1 /\ Len(TraceLines(call.io)) = 1
  /\ Count(call.log, "ca") = 0

\* C29: whatever value a predicate returns, true, false or undefined, the
\* step passes or fails alike whether the value comes directly or through
\* a promise, and a method or setter call decides on it as the constructor
\* check does.
C29_SameDecisionEverywhere ==
  BothBuildsDone =>
    /\ Outcome(call).failed = build.first.failed
    /\ \A s \in build.first.checked :
         (build.first.failed # "-" /\ StageOf(build.first.failed) = s)
           <=> IsFalsy(build.values[s])

BaseConstructorFinished == Count(klass.ctor.log, "super") > 0

\* C30: while the instance of a transformed class is under construction and
\* the base constructor has not finished, no invariant check has run and
\* nothing has been reported, also when the base constructor calls one of
\* the type's own methods or setters.
C30_NoCheckBeforeConstructed ==
  (klass.level = "class" /\ ~BaseConstructorFinished) =>
    /\ Count(call.log, "cb") = 0 /\ Count(call.log, "ca") = 0
    /\ call.failed = "-" /\ call.io = <<>>
    /\ klass.ctor.io = <<>> /\ klass.ctor.status = "none"

====
